---- MODULE Spec2Model ----
(***************************************************************************)
(* A model of the video page's client glue: VideoManager (js/vidio.js)     *)
(* and the part of AuthManager it depends on.  The hosted backend (auth,   *)
(* object storage, tables) is the environment: every call to it is a step  *)
(* whose outcome is chosen among the outcomes the client can observe.      *)
(* Every `await` of the code is a point where other calls may interleave.  *)
(***************************************************************************)
EXTENDS Integers, Sequences, FiniteSets, TLC

VARIABLES
    clock,      \* the millisecond clock read by Date.now() and new Date()
    session,    \* the backend's authenticated user for this browser, or NULL
    blobs,      \* keys of the objects held by the storage bucket 'videos'
    videos,     \* rows of the table 'videos'
    profiles,   \* rows of the table 'profiles'
    up,         \* the uploadVideo calls: locals, position, result
    ls,         \* the getAllVideos call
    gv,         \* the getVideoById call
    fmt,        \* the formatFileSize call: argument and returned string
    reg,        \* the AuthManager.register call
    form        \* the login form: fields, button, message, handler position

vars == <<clock, session, blobs, videos, profiles, up, ls, gv, fmt, reg, form>>

----------------------------------------------------------------------------
(* Bounds of the model. *)

\* the clock runs over 0..MaxClock
MaxClock == 1

\* the catalog holds at most MaxRows videos when it is read
MaxRows == 2

\* formatFileSize is given numbers of at most MaxLimbs base-1024 digits
MaxLimbs == 5

\* the calls in flight
UploadCalls == {"c1", "c2"}

Users == {"u1", "u2"}

----------------------------------------------------------------------------
(* JavaScript values. *)

\* null where the other values are strings (a user id, a message)
NULL == "null"
UNDEFINED == [kind |-> "undefined"]

\* a local that has not been assigned, or a null object from the backend
NONE == [kind |-> "none"]

----------------------------------------------------------------------------
(* VideoManager.uploadVideo: validation and key derivation. *)

validTypes == {"video/mp4", "video/quicktime", "video/x-msvideo", "video/mpeg"}

MaxFileSize == 50 * 1024 * 1024

MsgNotAuthenticated == "User not authenticated"
MsgInvalidType == "Hanya file video yang diperbolehkan (MP4, MOV, AVI, MPEG)"
MsgTooLarge == "File terlalu besar! Maksimal 50MB."

TypeAllowed(file) == file.type \in validTypes

\* a ceiling that shuts out the file of exactly 50 MiB
SizeAllowedStrict(file) == ~(file.size >= MaxFileSize)

SizeAllowed(file) == ~(file.size > MaxFileSize)

\* file.name.split('.').pop(): a name is the sequence of its dot-separated
\* parts, and the extension is the last of them (the whole name if no dot).
FileExt(file) == file.name[Len(file.name)]

\* Math.random().toString(36).substring(7): drops the first seven characters
\* ("0." and five digits) of the base-36 rendering; what is left may be empty.
RandomSuffix(rnd) == SubSeq(rnd, 8, Len(rnd))

\* `videos/${user.id}/${Date.now()}-${suffix}.${fileExt}`
FileName(user, now, rnd, file) ==
    [dir |-> "videos", owner |-> user, ts |-> now,
     suffix |-> RandomSuffix(rnd), ext |-> FileExt(file)]

\* the token between "videos/{id}/" and the extension
Token(key) == <<key.ts, key.suffix>>

\* a catch that reports a fixed text instead of the error's message
FailureFixedText(msg) == [success |-> FALSE, error |-> "Upload failed"]

\* the catch blocks: { success: false, error: error.message }
Failure(msg) == [success |-> FALSE, error |-> msg]

UploadSuccess(publicUrl) == [success |-> TRUE, videoUrl |-> publicUrl]

\* the size checked before the type
ValidationErrorSizeFirst(user, file) ==
    IF user = NULL THEN MsgNotAuthenticated
    ELSE IF ~SizeAllowed(file) THEN MsgTooLarge
    ELSE IF ~TypeAllowed(file) THEN MsgInvalidType
    ELSE NULL

\* The first failing precondition of uploadVideo, or NULL when all pass.
ValidationError(user, file) ==
    IF user = NULL THEN MsgNotAuthenticated
    ELSE IF ~TypeAllowed(file) THEN MsgInvalidType
    ELSE IF ~SizeAllowed(file) THEN MsgTooLarge
    ELSE NULL

----------------------------------------------------------------------------
(* The inputs of the calls and the answers of the backend. *)

\* File objects: name (its dot-separated parts), MIME type, size in bytes.
Files ==
    { [name |-> <<"a", "mp4">>, type |-> "video/mp4", size |-> MaxFileSize],
      [name |-> <<"b", "mov">>, type |-> "video/quicktime", size |-> 1],
      [name |-> <<"c", "avi">>, type |-> "video/x-msvideo", size |-> 1],
      [name |-> <<"clip">>, type |-> "video/mpeg", size |-> 1],
      [name |-> <<"e", "mp4">>, type |-> "video/mp4", size |-> MaxFileSize + 1],
      [name |-> <<"f", "png">>, type |-> "image/png", size |-> 1],
      [name |-> <<"g", "webm">>, type |-> "video/webm", size |-> MaxFileSize + 1] }

UploadInputs ==
    { [file |-> f, title |-> "My video", description |-> "About it"] : f \in Files }

\* the inputs of the calls that run concurrently: one file, uploaded twice
SameFileInputs == { i \in UploadInputs : i.file.name = <<"a", "mp4">> }

\* Math.random().toString(36): "0.i" is 0.5; the others have eight characters.
RandomStrings ==
    { <<"0", ".", "i">>,
      <<"0", ".", "a", "b", "c", "d", "e", "f">>,
      <<"0", ".", "a", "b", "c", "d", "e", "g">> }

FewRandomStrings == { r \in RandomStrings : Len(r) = 3 \/ r[8] = "f" }

\* How a call to the backend client ends: it resolves with a value, resolves
\* with an error object, or rejects (throws).
Outcomes == {"ok", "error", "throw"}

MsgNetwork == "Failed to fetch"
MsgDuplicate == "The resource already exists"
\* what error.message gives for an error value that has no message
NoMessage == "undefined"
StorageErrors == {MsgNetwork, "Bucket not found", NoMessage}
DbErrors == {MsgNetwork, "permission denied for table videos", NoMessage}
UrlErrors == {"Cannot read properties of undefined (reading 'publicUrl')"}

\* the storage client's public URL of a stored path
PublicUrlOf(path) == [kind |-> "url", path |-> path]

\* one call received by a backend client: operation, argument, how it
\* ended, and the message of its error (NULL when there is none)
Call(op, arg, res, msg) == [op |-> op, arg |-> arg, res |-> res, msg |-> msg]

----------------------------------------------------------------------------
(* AuthManager: the session. *)

\* AuthManager.getCurrentUser: the session's user when auth.getUser resolves
\* without error; null when it resolves with an error or throws.
CurrentUser(outcome) == IF outcome = "ok" THEN session ELSE NULL

\* AuthManager.login, when signInWithPassword succeeds: the session is u's.
\* (A failed sign-in changes nothing.)
Login(u) ==
    /\ session # u
    /\ session' = u
    /\ UNCHANGED <<fmt, reg, form, clock, blobs, videos, profiles, up, ls, gv>>

\* AuthManager.logout, when signOut succeeds.
Logout ==
    /\ session # NULL
    /\ session' = NULL
    /\ UNCHANGED <<fmt, reg, form, clock, blobs, videos, profiles, up, ls, gv>>

\* Time passes.
Tick ==
    /\ clock < MaxClock
    /\ clock' = clock + 1
    /\ UNCHANGED <<fmt, reg, form, session, blobs, videos, profiles, up, ls, gv>>

\* what a user typed into the register form
UserData(u) ==
    IF u = "u1" THEN [name |-> "Ann", email |-> "ann@example.com", password |-> "secret1"]
    ELSE [name |-> "Bob", email |-> "bob@example.com", password |-> "secret2"]

\* AuthManager.register, lines 27-32: the row inserted into 'profiles'
ProfileRow(id, userData, now) ==
    [id |-> id, email |-> userData.email, full_name |-> userData.name,
     created_at |-> now]

SignUpErrors == {"User already registered"}
ProfileErrors == {"duplicate key value violates unique constraint"}

\* reg.users is the backend's table of accounts
IdleRegister ==
    [pc |-> "idle", userData |-> NONE, user |-> NULL, users |-> {}, io |-> <<>>,
     result |-> NONE]

RegisterSuccess(user) == [success |-> TRUE, user |-> user]

\* The answers of auth.signUp for the data u typed: the new account's user
\* (or no user), an error, or an exception.
SignUpAnswers(u) ==
    { [res |-> "ok", user |-> u, msg |-> NULL],
      [res |-> "ok", user |-> NULL, msg |-> NULL] }
    \cup [res : {"error", "throw"}, user : {NULL}, msg : SignUpErrors]

\* The answers of from('profiles').insert([row]).
ProfileInsertAnswers ==
    {[res |-> "ok", msg |-> NULL]} \cup [res : {"error", "throw"}, msg : ProfileErrors]

\* a register that throws the profile error instead of logging it
AfterProfileInsertThrowing(a, user) ==
    IF a.res # "ok" THEN Failure(a.msg) ELSE RegisterSuccess(user)

\* lines 35-45: a profile error is logged and register returns success; an
\* exception of the insert is caught and register returns failure
AfterProfileInsert(a, user) ==
    IF a.res = "throw" THEN Failure(a.msg) ELSE RegisterSuccess(user)

\* Lines 10-33: signUp is answered; register returns (error, or no user in
\* the answer) or issues the profile insert.
RegisterSignUp ==
    /\ reg.pc = "idle"
    /\ \E u \in Users : \E a \in SignUpAnswers(u) :
         LET q == Call("auth.signUp", UserData(u), a.res, a.msg)
         IN  reg' = IF a.res # "ok"
                    THEN [reg EXCEPT !.pc = "done", !.userData = UserData(u),
                                     !.io = <<q>>, !.result = Failure(a.msg)]
                    ELSE IF a.user = NULL
                    THEN [reg EXCEPT !.pc = "done", !.userData = UserData(u),
                                     !.io = <<q>>, !.result = RegisterSuccess(NULL)]
                    ELSE [reg EXCEPT !.pc = "profile", !.userData = UserData(u),
                                     !.io = <<q>>, !.user = a.user,
                                     !.users = @ \cup {a.user}]
    /\ UNCHANGED <<fmt, form, clock, session, blobs, videos, profiles, up, ls, gv>>

\* Lines 24-45: the profile insert is answered and register returns.
RegisterProfile ==
    /\ reg.pc = "profile"
    /\ \E a \in ProfileInsertAnswers :
         LET row == ProfileRow(reg.user, reg.userData, clock)
             q == Call("profiles.insert", row, a.res, a.msg)
         IN  /\ reg' = [reg EXCEPT !.pc = "done", !.io = Append(@, q),
                                   !.result = AfterProfileInsert(a, reg.user)]
             /\ profiles' = IF a.res = "ok" THEN profiles \cup {row} ELSE profiles
    /\ UNCHANGED <<fmt, form, clock, session, blobs, videos, up, ls, gv>>

\* AuthManager.login with the credentials of an account, when
\* signInWithPassword succeeds
LoginRegistered(u) ==
    /\ u \in reg.users
    /\ Login(u)

\* AuthManager.login, lines 55-61
LoginResult(a) ==
    IF a.res = "ok" THEN [success |-> TRUE, user |-> a.user] ELSE Failure(a.msg)

----------------------------------------------------------------------------
(* The login form. Field values are sequences of characters. *)

\* a submit handler runs at most MaxAttempts times
MaxAttempts == 2

MsgInvalidLogin == "Invalid login credentials"
MsgFillAll == "Harap isi semua field"
MsgLoginOk == "Login berhasil! Mengalihkan..."
MsgWrongLogin == "Email atau password salah"
LabelLoading == "Masuk..."
LabelLogin == "Masuk"

Emails == { <<>>, <<" ">>, <<"a", "@", "b">>, <<" ", "a", "@", "b", " ">> }
Passwords == { <<>>, <<" ">>, <<"p", "w">> }

\* the one account of the backend
Credentials == [email |-> <<"a", "@", "b">>, password |-> <<"p", "w">>, id |-> "u1"]

RECURSIVE TrimStart(_)
TrimStart(str) ==
    IF str # <<>> /\ Head(str) = " " THEN TrimStart(Tail(str)) ELSE str

RECURSIVE TrimEnd(_)
TrimEnd(str) ==
    IF str # <<>> /\ str[Len(str)] = " "
    THEN TrimEnd(SubSeq(str, 1, Len(str) - 1))
    ELSE str

\* String.prototype.trim
Trim(str) == TrimEnd(TrimStart(str))

\* The answers of auth.signInWithPassword.
SignInAnswers(email, password) ==
    (IF email = Credentials.email /\ password = Credentials.password
        THEN {[res |-> "ok", user |-> Credentials.id, msg |-> NULL]}
        ELSE {[res |-> "error", user |-> NULL, msg |-> MsgInvalidLogin]})
    \cup [res : {"error", "throw"}, user : {NULL}, msg : {MsgNetwork, NoMessage}]

\* showMessage(message, type, container): the container's content. (The
\* timer that clears a success message is due after the redirect.)
ShowMessage(message, type) == [text |-> message, type |-> type]

\* result.error.includes('Invalid login credentials'), for the messages
\* the backend gives
Includes(error, text) == error = text

\* the handler gets past line 145: result.error.includes(...) throws a
\* TypeError when a failure's error is undefined
Completes(result) == result.success \/ result.error # NoMessage

IdleForm ==
    [page |-> "login", email |-> <<>>, password |-> <<>>, btnText |-> LabelLogin,
     btnDisabled |-> FALSE, message |-> NONE, pc |-> "idle", redirect |-> FALSE,
     call |-> NONE, attempts |-> <<>>]

\* the user edits a field
TypeEmail(e) ==
    /\ form.page = "login"
    /\ form.email # e
    /\ form' = [form EXCEPT !.email = e]
    /\ UNCHANGED <<fmt, reg, clock, session, blobs, videos, profiles, up, ls, gv>>

TypePassword(p) ==
    /\ form.page = "login"
    /\ form.password # p
    /\ form' = [form EXCEPT !.password = p]
    /\ UNCHANGED <<fmt, reg, clock, session, blobs, videos, profiles, up, ls, gv>>

\* Lines 115-134: the form is submitted (a disabled button submits
\* nothing); the handler returns on an empty field or calls login.
Submit ==
    /\ form.page = "login"
    /\ ~form.btnDisabled
    /\ Len(form.attempts) < MaxAttempts
    /\ LET email == Trim(form.email)
           password == form.password
       IN  form' = IF email = <<>> \/ password = <<>>
                   THEN [form EXCEPT
                           !.message = ShowMessage(MsgFillAll, "error"),
                           !.attempts = Append(@, [email |-> email,
                               password |-> password, called |-> FALSE,
                               result |-> NONE])]
                   ELSE [form EXCEPT
                           !.btnText = LabelLoading,
                           !.btnDisabled = TRUE,
                           !.pc = "login",
                           !.call = [email |-> email, password |-> password]]
    /\ UNCHANGED <<fmt, reg, clock, session, blobs, videos, profiles, up, ls, gv>>

\* Lines 134-152: login returns and the handler runs to its end, or to the
\* TypeError of line 145.
LoginReturns ==
    /\ form.pc = "login"
    /\ \E a \in SignInAnswers(form.call.email, form.call.password) :
         LET result == LoginResult(a)
             errorMessage == IF Includes(result.error, MsgInvalidLogin)
                             THEN MsgWrongLogin ELSE result.error
             attempt == [email |-> form.call.email, password |-> form.call.password,
                         called |-> TRUE, result |-> result]
         IN  /\ session' = IF a.res = "ok" THEN a.user ELSE session
             /\ form' =
                  IF ~Completes(result)
                  THEN [form EXCEPT !.pc = "idle", !.call = NONE,
                                    !.attempts = Append(@, attempt)]
                  ELSE [form EXCEPT
                          !.pc = "idle", !.call = NONE,
                          !.attempts = Append(@, attempt),
                          !.message = IF result.success
                                      THEN ShowMessage(MsgLoginOk, "success")
                                      ELSE ShowMessage(errorMessage, "error"),
                          !.redirect = @ \/ result.success,
                          !.btnText = LabelLogin,
                          !.btnDisabled = FALSE]
    /\ UNCHANGED <<fmt, reg, clock, blobs, videos, profiles, up, ls, gv>>

\* Lines 139-141: the timer fires and the page is left.
Redirect ==
    /\ form.page = "login"
    /\ form.redirect
    /\ form' = [form EXCEPT !.page = "dashboard", !.redirect = FALSE]
    /\ UNCHANGED <<fmt, reg, clock, session, blobs, videos, profiles, up, ls, gv>>

----------------------------------------------------------------------------
(* VideoManager.uploadVideo. *)

IdleUpload ==
    [pc |-> "idle", input |-> NONE, user |-> NULL, fileName |-> NONE,
     data |-> NONE, publicUrl |-> NONE, record |-> NONE, io |-> <<>>,
     result |-> NONE]

\* a record whose storage_path is built again, without the random suffix
VideoRecordRebuiltPath(input, data, publicUrl, user, now) ==
    [title |-> input.title,
     description |-> input.description,
     file_name |-> input.file.name,
     file_size |-> input.file.size,
     file_type |-> input.file.type,
     storage_path |-> [data.path EXCEPT !.suffix = <<>>],
     video_url |-> publicUrl,
     uploaded_by |-> user,
     duration |-> 0,
     created_at |-> now]

\* a record whose owner is read from the session when the record is built
VideoRecordSessionOwner(input, data, publicUrl, user, now) ==
    [title |-> input.title,
     description |-> input.description,
     file_name |-> input.file.name,
     file_size |-> input.file.size,
     file_type |-> input.file.type,
     storage_path |-> data.path,
     video_url |-> publicUrl,
     uploaded_by |-> session,
     duration |-> 0,
     created_at |-> now]

\* the object handed to insert([...])
VideoRecord(input, data, publicUrl, user, now) ==
    [title |-> input.title,
     description |-> input.description,
     file_name |-> input.file.name,
     file_size |-> input.file.size,
     file_type |-> input.file.type,
     storage_path |-> data.path,
     video_url |-> publicUrl,
     uploaded_by |-> user,
     duration |-> 0,
     created_at |-> now]

\* the answers of an upload with upsert: true: a stored key is overwritten
UploadAnswersUpsert(key) ==
    {[res |-> "ok", msg |-> NULL]} \cup [res : {"error", "throw"}, msg : StorageErrors]

\* The answers of storage.upload(key, file, {upsert: false}).
UploadAnswers(key) ==
    (IF key \in blobs
        THEN {[res |-> "error", msg |-> MsgDuplicate]}
        ELSE {[res |-> "ok", msg |-> NULL]})
    \cup [res : {"error", "throw"}, msg : StorageErrors]

\* The answers of storage.getPublicUrl(path): {data: {publicUrl}} with the
\* URL, the same without a usable publicUrl, or an exception.
PublicUrlAnswers(path) ==
    { [res |-> "ok", publicUrl |-> PublicUrlOf(path), msg |-> NULL],
      [res |-> "ok", publicUrl |-> UNDEFINED, msg |-> NULL] }
    \cup [res : {"throw"}, publicUrl : {NONE}, msg : UrlErrors]

\* The answers of from('videos').insert([record]).select().
InsertAnswers ==
    {[res |-> "ok", msg |-> NULL]} \cup [res : {"error", "throw"}, msg : DbErrors]

\* the row the table holds for an inserted record: the store assigns the id
Row(id, record) == [id |-> id] @@ record

NewRow(record) == Row(Cardinality(videos) + 1, record)

\* Lines 10-26: resolve the user, validate, derive the key; then the blob
\* put is issued (line 29), or the call ends in the catch (lines 72-75).
UploadBegin(c, inputs, rnds) ==
    /\ up[c].pc = "idle"
    /\ \E input \in inputs, g \in Outcomes, rnd \in rnds :
         LET user == CurrentUser(g)
             err == ValidationError(user, input.file)
             io == <<Call("auth.getUser", NONE, g, NULL)>>
         IN  up' = [up EXCEPT ![c] =
                 IF err # NULL
                 THEN [@ EXCEPT !.pc = "done", !.input = input, !.user = user,
                                !.io = io, !.result = Failure(err)]
                 ELSE [@ EXCEPT !.pc = "upload", !.input = input, !.user = user,
                                !.io = io,
                                !.fileName = FileName(user, clock, rnd, input.file)]]
    /\ UNCHANGED <<fmt, reg, form, clock, session, blobs, videos, profiles, ls, gv>>

\* Lines 29-66: the put is answered; on success the public URL is looked up
\* and the insert is issued.
UploadStore(c) ==
    /\ up[c].pc = "upload"
    /\ \E a \in UploadAnswers(up[c].fileName) :
         LET put == Call("storage.upload", up[c].fileName, a.res, a.msg)
         IN  IF a.res # "ok"
             THEN /\ up' = [up EXCEPT ![c] =
                          [@ EXCEPT !.pc = "done", !.io = Append(@, put),
                                    !.result = Failure(a.msg)]]
                  /\ UNCHANGED blobs
             ELSE /\ blobs' = blobs \cup {up[c].fileName}
                  /\ \E u \in PublicUrlAnswers(up[c].fileName) :
                       LET data == [path |-> up[c].fileName]
                           get == Call("storage.getPublicUrl", data.path, u.res, u.msg)
                       IN  up' = [up EXCEPT ![c] =
                               IF u.res = "throw"
                               THEN [@ EXCEPT !.pc = "done", !.data = data,
                                              !.io = @ \o <<put, get>>,
                                              !.result = Failure(u.msg)]
                               ELSE [@ EXCEPT !.pc = "insert", !.data = data,
                                              !.publicUrl = u.publicUrl,
                                              !.io = @ \o <<put, get>>,
                                              !.record = VideoRecord(up[c].input, data,
                                                  u.publicUrl, up[c].user, clock)]]
    /\ UNCHANGED <<fmt, reg, form, clock, session, videos, profiles, ls, gv>>

\* Lines 50-75: the insert is answered and the call returns.
UploadInsert(c) ==
    /\ up[c].pc = "insert"
    /\ \E a \in InsertAnswers :
         LET ins == Call("videos.insert", up[c].record, a.res, a.msg)
         IN  /\ up' = [up EXCEPT ![c] =
                     [@ EXCEPT !.pc = "done", !.io = Append(@, ins),
                               !.result = IF a.res = "ok"
                                          THEN UploadSuccess(up[c].publicUrl)
                                          ELSE Failure(a.msg)]]
             /\ videos' = IF a.res = "ok"
                          THEN videos \cup {NewRow(up[c].record)}
                          ELSE videos
    /\ UNCHANGED <<fmt, reg, form, clock, session, blobs, profiles, ls, gv>>

----------------------------------------------------------------------------
(* VideoManager.getAllVideos. *)

Placeholder == [full_name |-> "Unknown User", email |-> "unknown@email.com"]

IdleList == [pc |-> "idle", videos |-> <<>>, userIds |-> {}, io |-> <<>>, result |-> NONE]

ListSuccess(vs) == [success |-> TRUE, videos |-> vs]

\* the sequences that hold each element of the set S once
Enumerations(S) ==
    { s \in [1..Cardinality(S) -> S] : \A i, j \in DOMAIN s : i # j => s[i] # s[j] }

\* order('created_at', {ascending: false}): rows of equal created_at come in
\* any order
Descending(s) == \A i, j \in DOMAIN s : i < j => s[i].created_at >= s[j].created_at

\* The answers of from('videos').select('*').order(...): data is the rows in
\* order (an empty table may also give null data), or there is an error.
VideoQueryAnswers ==
    { [res |-> "ok", null |-> FALSE, rows |-> s, msg |-> NULL] :
          s \in { e \in Enumerations(videos) : Descending(e) } }
    \cup (IF videos = {}
          THEN {[res |-> "ok", null |-> TRUE, rows |-> <<>>, msg |-> NULL]}
          ELSE {})
    \cup [res : {"error", "throw"}, null : {TRUE}, rows : {<<>>}, msg : DbErrors]

\* select('id, full_name, email')
ProfileColumns(p) == [id |-> p.id, full_name |-> p.full_name, email |-> p.email]

\* The answers of from('profiles').select(...).in('id', ids).
ProfileQueryAnswers(ids) ==
    { [res |-> "ok", rows |-> s, msg |-> NULL] :
          s \in Enumerations({ ProfileColumns(p) : p \in { q \in profiles : q.id \in ids } }) }
    \cup [res : {"error", "throw"}, rows : {<<>>}, msg : DbErrors]

\* [...new Set(videos.map(video => video.uploaded_by))]
UserIds(vs) == { vs[i].uploaded_by : i \in DOMAIN vs }

\* a find whose test assigns instead of comparing: the first profile, if any
FindFirst(ps, id) == IF Len(ps) = 0 THEN UNDEFINED ELSE ps[1]

\* profiles.find(p => p.id === id): the first match, or undefined
Find(ps, id) ==
    LET hits == { i \in DOMAIN ps : ps[i].id = id }
    IN  IF hits = {} THEN UNDEFINED
        ELSE ps[CHOOSE i \in hits : \A j \in hits : i <= j]

\* {...video, profiles: p}
WithProfile(video, p) == [profiles |-> p] @@ video

\* a fallback that gives the videos back in reverse
VideosWithoutProfilesReversed(vs) ==
    [i \in DOMAIN vs |-> WithProfile(vs[Len(vs) + 1 - i], Placeholder)]

\* lines 105-108
VideosWithoutProfiles(vs) == [i \in DOMAIN vs |-> WithProfile(vs[i], Placeholder)]

\* a join that gives the videos back in reverse
VideosWithProfilesReversed(vs, ps) ==
    [i \in DOMAIN vs |->
        LET v == vs[Len(vs) + 1 - i]
            profile == Find(ps, v.uploaded_by)
        IN  WithProfile(v, IF profile = UNDEFINED THEN Placeholder ELSE profile)]

\* lines 113-119
VideosWithProfiles(vs, ps) ==
    [i \in DOMAIN vs |->
        LET profile == Find(ps, vs[i].uploaded_by)
        IN  WithProfile(vs[i], IF profile = UNDEFINED THEN Placeholder ELSE profile)]

\* a test that never finds the data empty
IsEmptyNever(a) == FALSE

\* line 90: !videos || videos.length === 0
IsEmpty(a) == a.null \/ Len(a.rows) = 0

\* Lines 82-100: the video query is answered; the call returns (error, or
\* nothing to list) or issues the profile query.
ListQuery ==
    /\ ls.pc = "idle"
    /\ \E a \in VideoQueryAnswers :
         LET q == Call("videos.select", NONE, a.res, a.msg)
         IN  ls' = IF a.res # "ok"
                   THEN [ls EXCEPT !.pc = "done", !.io = <<q>>, !.result = Failure(a.msg)]
                   ELSE IF IsEmpty(a)
                   THEN [ls EXCEPT !.pc = "done", !.io = <<q>>, !.result = ListSuccess(<<>>)]
                   ELSE [ls EXCEPT !.pc = "profiles", !.io = <<q>>, !.videos = a.rows,
                                   !.userIds = UserIds(a.rows)]
    /\ UNCHANGED <<fmt, reg, form, clock, session, blobs, videos, profiles, up, gv>>

\* Lines 97-126: the profile query is answered and the call returns.
ListProfiles ==
    /\ ls.pc = "profiles"
    /\ \E a \in ProfileQueryAnswers(ls.userIds) :
         LET q == Call("profiles.select", ls.userIds, a.res, a.msg)
         IN  ls' = [ls EXCEPT !.pc = "done", !.io = Append(@, q),
                       !.result =
                           CASE a.res = "throw" -> Failure(a.msg)
                             [] a.res = "error" -> ListSuccess(VideosWithoutProfiles(ls.videos))
                             [] OTHER -> ListSuccess(VideosWithProfiles(ls.videos, a.rows))]
    /\ UNCHANGED <<fmt, reg, form, clock, session, blobs, videos, profiles, up, gv>>

----------------------------------------------------------------------------
(* VideoManager.getVideoById. *)

MsgNoRows == "JSON object requested, multiple (or no) rows returned"

IdleGet == [pc |-> "idle", videoId |-> 0, io |-> <<>>, result |-> NONE]

\* profiles:uploaded_by(full_name, email): the owner's profile embedded in
\* the row, null when there is none
Embedded(owner) ==
    LET own == { p \in profiles : p.id = owner }
    IN  IF own = {} THEN NONE
        ELSE LET p == CHOOSE q \in own : TRUE
             IN  [full_name |-> p.full_name, email |-> p.email]

\* The answers of from('videos').select(...).eq('id', id).single(): the one
\* matching row; for no match, an error or null data without one; an error.
ByIdAnswers(id) ==
    LET match == { v \in videos : v.id = id }
    IN  (IF match = {}
         THEN { [res |-> "error", data |-> NONE, msg |-> MsgNoRows],
                [res |-> "ok", data |-> NONE, msg |-> NULL] }
         ELSE { [res |-> "ok", data |-> WithProfile(v, Embedded(v.uploaded_by)), msg |-> NULL] :
                    v \in match })
        \cup [res : {"error", "throw"}, data : {NONE}, msg : DbErrors]

GetSuccess(video) == [success |-> TRUE, video |-> video]

\* Lines 130-148, one query and the return.
GetVideoById(videoId) ==
    /\ gv.pc = "idle"
    /\ \E a \in ByIdAnswers(videoId) :
         gv' = [gv EXCEPT !.pc = "done", !.videoId = videoId,
                   !.io = <<Call("videos.single", videoId, a.res, a.msg)>>,
                   !.result = IF a.res = "ok" THEN GetSuccess(a.data) ELSE Failure(a.msg)]
    /\ UNCHANGED <<fmt, reg, form, clock, session, blobs, videos, profiles, up, ls>>

----------------------------------------------------------------------------
(* VideoManager.formatFileSize.  A byte count is the sequence of its        *)
(* base-1024 digits, lowest first, its highest digit not 0; 0 is <<>>.      *)
(* The string returned is the record of its parts: the digits before the   *)
(* point (a number), the decimals printed, and the unit after the space.   *)

IdleFormat == [pc |-> "idle", bytes |-> <<>>, out |-> NONE]

k == 1024

sizes == <<"Bytes", "KB", "MB", "GB">>

\* Math.floor(Math.log(bytes) / Math.log(k)), bytes > 0: the number of
\* base-1024 digits less one
FloorLog(bytes) == Len(bytes) - 1

\* sizes[i] in a string concatenation: an index past the array prints as
\* "undefined"
SizeAt(i) == IF i + 1 \in DOMAIN sizes THEN sizes[i + 1] ELSE "undefined"

\* The integer part of bytes / k^i.
RECURSIVE WholePart(_, _)
WholePart(bytes, i) ==
    IF Len(bytes) <= i THEN 0
    ELSE bytes[i + 1] + k * WholePart(Tail(bytes), i)

\* floor(200 * f), f the fractional part of bytes / k^i, digit by digit
\* from the lowest: c(0) = 0, c(j) = (200 * bytes[j] + c(j-1)) div k
RECURSIVE TwoHundredths(_, _)
TwoHundredths(bytes, i) ==
    IF i = 0 THEN 0
    ELSE (200 * bytes[i] + TwoHundredths(bytes, i - 1)) \div k

\* (x).toFixed(2) for x = bytes / k^i, which a double holds exactly: the
\* hundredths of x rounded to the nearest, a tie going up
ToFixed2(bytes, i) ==
    LET cents == (TwoHundredths(bytes, i) + 1) \div 2
    IN  IF cents = 100
        THEN [whole |-> WholePart(bytes, i) + 1, cents |-> 0]
        ELSE [whole |-> WholePart(bytes, i), cents |-> cents]

\* parseFloat(s) + '': the number printed without trailing zero decimals
ParseFloat(fixed) ==
    [whole |-> fixed.whole,
     decimals |-> IF fixed.cents = 0 THEN <<>>
                  ELSE IF fixed.cents % 10 = 0 THEN <<fixed.cents \div 10>>
                  ELSE <<fixed.cents \div 10, fixed.cents % 10>>]

\* lines 151-157
formatFileSize(bytes) ==
    IF bytes = <<>> THEN [whole |-> 0, decimals |-> <<>>, unit |-> "Bytes"]
    ELSE LET i == FloorLog(bytes)
             n == ParseFloat(ToFixed2(bytes, i))
         IN  [whole |-> n.whole, decimals |-> n.decimals, unit |-> SizeAt(i)]

\* the digits the byte counts are made of
LimbValues == {0, 1, 128, 512, 1023}

ByteCounts ==
    UNION { { b \in [1..n -> LimbValues] : n > 0 => b[n] # 0 } : n \in 0..MaxLimbs }

FormatFileSize ==
    /\ fmt.pc = "idle"
    /\ fmt' = [fmt EXCEPT !.pc = "done", !.out = formatFileSize(fmt.bytes)]
    /\ UNCHANGED <<clock, session, blobs, videos, profiles, up, ls, gv, reg, form>>

InitFormat ==
    /\ clock = 0
    /\ session = NULL
    /\ blobs = {}
    /\ videos = {}
    /\ profiles = {}
    /\ up = [c \in {} |-> IdleUpload]
    /\ ls = IdleList
    /\ gv = IdleGet
    /\ fmt \in { [IdleFormat EXCEPT !.bytes = b] : b \in ByteCounts }
    /\ reg = NONE
    /\ form = NONE

NextFormat == FormatFileSize

SpecFormat == InitFormat /\ [][NextFormat]_vars

----------------------------------------------------------------------------

Init ==
    /\ clock = 0
    /\ session = NULL
    /\ blobs = {}
    /\ videos = {}
    /\ profiles = {}
    /\ up = [c \in UploadCalls |-> IdleUpload]
    /\ ls = NONE
    /\ gv = NONE
    /\ fmt = NONE
    /\ reg = NONE
    /\ form = NONE

Next ==
    \/ Tick
    \/ \E u \in Users : Login(u)
    \/ Logout
    \/ \E c \in UploadCalls : UploadBegin(c, SameFileInputs, FewRandomStrings)
    \/ \E c \in UploadCalls : UploadStore(c)
    \/ \E c \in UploadCalls : UploadInsert(c)

Spec == Init /\ [][Next]_vars

\* One upload call, over every input.
InitUpload ==
    /\ clock = 0
    /\ session = NULL
    /\ blobs = {}
    /\ videos = {}
    /\ profiles = {}
    /\ up = [c \in {"c1"} |-> IdleUpload]
    /\ ls = NONE
    /\ gv = NONE
    /\ fmt = NONE
    /\ reg = NONE
    /\ form = NONE

NextUpload ==
    \/ Tick
    \/ \E u \in Users : Login(u)
    \/ Logout
    \/ UploadBegin("c1", UploadInputs, RandomStrings)
    \/ UploadStore("c1")
    \/ UploadInsert("c1")

SpecUpload == InitUpload /\ [][NextUpload]_vars

\* The catalog is read: one getAllVideos call and one getVideoById call, on
\* tables left by earlier registrations and uploads.

RandomAt(i) ==
    LET rs == << <<"0", ".", "i">>,
                 <<"0", ".", "a", "b", "c", "d", "e", "f">>,
                 <<"0", ".", "a", "b", "c", "d", "e", "g">> >>
    IN  rs[((i - 1) % Len(rs)) + 1]

\* the row left by the i-th successful upload, by owner at time now
UploadedRow(i, owner, now) ==
    LET input == CHOOSE x \in SameFileInputs : TRUE
        data == [path |-> FileName(owner, now, RandomAt(i), input.file)]
    IN  Row(i, VideoRecord(input, data, PublicUrlOf(data.path), owner, now))

VideoTables ==
    UNION { { { UploadedRow(i, owners[i], times[i]) : i \in 1..n } :
                owners \in [1..n -> Users], times \in [1..n -> 0..MaxClock] } :
            n \in 0..MaxRows }

\* register reports success whether or not the profile insert succeeded
ProfileTables ==
    { { ProfileRow(u, UserData(u), 0) : u \in S } : S \in SUBSET Users }

InitCatalog ==
    /\ clock = MaxClock
    /\ session = NULL
    /\ videos \in VideoTables
    /\ blobs = { v.storage_path : v \in videos }
    /\ profiles \in ProfileTables
    /\ up = [c \in {} |-> IdleUpload]
    /\ ls = IdleList
    /\ gv = IdleGet
    /\ fmt = NONE
    /\ reg = NONE
    /\ form = NONE

NextCatalog ==
    \/ ListQuery
    \/ ListProfiles
    \/ \E id \in 1..(MaxRows + 1) : GetVideoById(id)

SpecCatalog == InitCatalog /\ [][NextCatalog]_vars

\* Uploads race with a listing: two uploadVideo calls and one getAllVideos
\* call, by a signed-in user.
InitRace ==
    /\ clock = 0
    /\ session \in Users
    /\ blobs = {}
    /\ videos = {}
    /\ profiles = { ProfileRow(u, UserData(u), 0) : u \in Users }
    /\ up = [c \in UploadCalls |-> IdleUpload]
    /\ ls = IdleList
    /\ gv = NONE
    /\ fmt = NONE
    /\ reg = NONE
    /\ form = NONE

NextRace ==
    \/ Tick
    \/ \E c \in UploadCalls : UploadBegin(c, SameFileInputs, FewRandomStrings)
    \/ \E c \in UploadCalls : UploadStore(c)
    \/ \E c \in UploadCalls : UploadInsert(c)
    \/ ListQuery
    \/ ListProfiles

SpecRace == InitRace /\ [][NextRace]_vars

\* A user registers, signs in, uploads, and the catalog is listed.
InitAuth ==
    /\ clock = 0
    /\ session = NULL
    /\ blobs = {}
    /\ videos = {}
    /\ profiles = {}
    /\ up = [c \in {"c1"} |-> IdleUpload]
    /\ ls = IdleList
    /\ gv = NONE
    /\ fmt = NONE
    /\ reg = IdleRegister
    /\ form = NONE

NextAuth ==
    \/ Tick
    \/ RegisterSignUp
    \/ RegisterProfile
    \/ \E u \in Users : LoginRegistered(u)
    \/ UploadBegin("c1", SameFileInputs, FewRandomStrings)
    \/ UploadStore("c1")
    \/ UploadInsert("c1")
    \/ ListQuery
    \/ ListProfiles

SpecAuth == InitAuth /\ [][NextAuth]_vars

\* The login page.
InitLogin ==
    /\ clock = 0
    /\ session = NULL
    /\ blobs = {}
    /\ videos = {}
    /\ profiles = {}
    /\ up = [c \in {} |-> IdleUpload]
    /\ ls = NONE
    /\ gv = NONE
    /\ fmt = NONE
    /\ reg = NONE
    /\ form = IdleForm

NextLogin ==
    \/ \E e \in Emails : TypeEmail(e)
    \/ \E p \in Passwords : TypePassword(p)
    \/ Submit
    \/ LoginReturns
    \/ Redirect

SpecLogin == InitLogin /\ [][NextLogin]_vars

----------------------------------------------------------------------------
(* The claims about uploadVideo, checked under SpecUpload. *)

\* the calls of a log made to the operation op
CallsTo(io, op) == { i \in DOMAIN io : io[i].op = op }

\* the calls of a log received by the storage and metadata-store clients
BackendIO(io) == { i \in DOMAIN io : io[i].op # "auth.getUser" }

\* C1: an upload by an authenticated principal of a file whose type is not
\* one of the four video types, or whose size is over 50*1024*1024 bytes,
\* returns a failure and the storage and metadata clients receive no call;
\* a file of exactly 50*1024*1024 bytes of an allowed type passes validation
\* (the blob put is issued).
C1_InvalidFileNoIO ==
    \A c \in DOMAIN up :
        LET u == up[c] IN
        (u.pc # "idle" /\ u.user # NULL) =>
            IF \/ u.input.file.type \notin
                     {"video/mp4", "video/quicktime", "video/x-msvideo", "video/mpeg"}
               \/ u.input.file.size > 52428800
            THEN /\ u.pc = "done"
                 /\ u.result.success = FALSE
                 /\ BackendIO(u.io) = {}
                 /\ blobs = {} /\ videos = {}
            ELSE /\ u.fileName # NONE
                 /\ CallsTo(u.io, "storage.upload") # {} \/ u.pc = "upload"

C1_Witness ==
    \E c \in DOMAIN up :
        /\ up[c].pc = "done" /\ up[c].user # NULL
        /\ up[c].input.file.type = "video/mp4"
        /\ up[c].input.file.size = 52428801
        /\ up[c].result = [success |-> FALSE, error |-> MsgTooLarge]

\* C2: a successful upload made exactly one blob put and one metadata
\* insert; the inserted record's storage_path is the key the blob was stored
\* under, its video_url is the locator the storage client gave for that key,
\* and the returned videoUrl is that locator.
C2_SuccessOnePutOneInsert ==
    \A c \in DOMAIN up :
        LET u == up[c] IN
        (u.pc = "done" /\ u.result.success) =>
            /\ Cardinality(CallsTo(u.io, "storage.upload")) = 1
            /\ Cardinality(CallsTo(u.io, "videos.insert")) = 1
            /\ Cardinality(CallsTo(u.io, "storage.getPublicUrl")) = 1
            /\ LET put == u.io[CHOOSE i \in CallsTo(u.io, "storage.upload") : TRUE]
                   get == u.io[CHOOSE i \in CallsTo(u.io, "storage.getPublicUrl") : TRUE]
                   ins == u.io[CHOOSE i \in CallsTo(u.io, "videos.insert") : TRUE]
               IN  /\ put.arg \in blobs
                   /\ ins.arg.storage_path = put.arg
                   /\ get.arg = put.arg
                   /\ ins.arg.video_url = u.publicUrl
                   /\ u.publicUrl \in {PublicUrlOf(put.arg), UNDEFINED}
                   /\ u.result.videoUrl = ins.arg.video_url
                   /\ Cardinality({ v \in videos : v.storage_path = put.arg }) = 1
                   /\ \A v \in videos : v.storage_path = put.arg =>
                          v.video_url = ins.arg.video_url

C2_Witness ==
    \E c \in DOMAIN up :
        /\ up[c].pc = "done" /\ up[c].result.success
        /\ up[c].fileName.suffix # <<>>
        /\ up[c].result.videoUrl = PublicUrlOf(up[c].fileName)

\* C4: when the blob put succeeded and the metadata insert failed, the call
\* returns a failure that identifies a metadata-write failure (no failed
\* storage write returns the same result), the blob stays in the store, and
\* the table holds no record for it.
C4_MetadataFailureDistinct ==
    \A c \in DOMAIN up :
        LET u == up[c] IN
        \A i \in CallsTo(u.io, "videos.insert") :
            (u.io[i].res # "ok" /\ u.publicUrl = PublicUrlOf(u.data.path)) =>
                /\ u.pc = "done"
                /\ u.result.success = FALSE
                /\ u.result \notin
                       { [success |-> FALSE, error |-> m] :
                             m \in StorageErrors \cup UrlErrors \cup {MsgDuplicate} }
                /\ u.data.path \in blobs
                /\ \A v \in videos : v.storage_path # u.data.path

\* C5: when the blob put fails, the call returns a failure carrying the
\* message of the put's error, the put was made once, and neither the public
\* URL lookup nor the metadata insert is made.
C5_PutFailureNoRetry ==
    \A c \in DOMAIN up :
        LET u == up[c] IN
        \A i \in CallsTo(u.io, "storage.upload") :
            u.io[i].res # "ok" =>
                /\ u.pc = "done"
                /\ u.result = [success |-> FALSE, error |-> u.io[i].msg]
                /\ Cardinality(CallsTo(u.io, "storage.upload")) = 1
                /\ CallsTo(u.io, "storage.getPublicUrl") = {}
                /\ CallsTo(u.io, "videos.insert") = {}
                /\ videos = {}

C5_Witness ==
    \E c \in DOMAIN up :
        /\ up[c].pc = "done"
        /\ Len(up[c].io) = 2
        /\ up[c].io[2].op = "storage.upload"
        /\ up[c].io[2].res = "throw"
        /\ up[c].result = [success |-> FALSE, error |-> "Bucket not found"]

\* C6: the preconditions are checked in the order principal, type, size and
\* the first failing one is reported: a null principal (also when the
\* identity provider errors) gives 'User not authenticated' whatever the
\* file; a file of a disallowed type that is also too large gives the
\* invalid-type failure.
C6_FirstFailureWins ==
    \A c \in DOMAIN up :
        LET u == up[c]
            badType == u.input.file.type \notin
                {"video/mp4", "video/quicktime", "video/x-msvideo", "video/mpeg"}
            tooLarge == u.input.file.size > 52428800
        IN
        u.pc # "idle" =>
            /\ u.io[1].res # "ok" => u.user = NULL
            /\ u.user = NULL =>
                   /\ u.pc = "done"
                   /\ u.result = [success |-> FALSE, error |-> "User not authenticated"]
            /\ (u.user # NULL /\ badType) =>
                   /\ u.pc = "done"
                   /\ u.result = [success |-> FALSE, error |-> MsgInvalidType]
            /\ (u.user # NULL /\ ~badType /\ tooLarge) =>
                   /\ u.pc = "done"
                   /\ u.result = [success |-> FALSE, error |-> MsgTooLarge]

C6_Witness ==
    \E c \in DOMAIN up :
        /\ up[c].pc = "done" /\ up[c].user # NULL
        /\ up[c].input.file.type = "video/webm"
        /\ up[c].input.file.size > 52428800
        /\ up[c].result.error = MsgInvalidType

\* C7: if the public URL lookup for the stored key fails (it throws, or
\* gives no usable publicUrl), the call returns a failure and issues no
\* metadata insert; an undefined locator is neither returned nor stored.
C7_NoLocatorNoInsert ==
    \A c \in DOMAIN up :
        LET u == up[c] IN
        \A i \in CallsTo(u.io, "storage.getPublicUrl") :
            (u.io[i].res = "throw" \/ u.publicUrl = UNDEFINED) =>
                /\ u.pc = "done"
                /\ u.result.success = FALSE
                /\ CallsTo(u.io, "videos.insert") = {}
                /\ \A v \in videos : v.video_url # UNDEFINED

----------------------------------------------------------------------------
(* The claim about concurrent uploads, checked under Spec. *)

\* C3: two uploads by the same principal that read the same millisecond
\* derive keys whose tokens differ, and neither fails on a key collision.
C3_DistinctKeys ==
    \A c, d \in DOMAIN up :
        (/\ c # d
         /\ up[c].fileName # NONE /\ up[d].fileName # NONE
         /\ up[c].user = up[d].user
         /\ up[c].fileName.ts = up[d].fileName.ts) =>
            /\ Token(up[c].fileName) # Token(up[d].fileName)
            /\ \A i \in DOMAIN up[c].io : up[c].io[i].msg # MsgDuplicate

\* C13: every record inserted by uploadVideo has as uploaded_by the id of
\* the user who was signed in when the call looked up the identity, never
\* null, and the owner segment of its storage key names the same user; a
\* logout or a login as another user between the lookup and the insert
\* changes neither.
C13_OwnerIsPrincipalAtLookup ==
    [][\A c \in DOMAIN up :
          /\ (up[c].pc = "idle" /\ up'[c].pc = "upload") =>
                 /\ session # NULL
                 /\ up'[c].user = session
                 /\ up'[c].fileName.owner = session
          /\ up[c].pc # "idle" => up'[c].user = up[c].user
          /\ (up[c].pc = "insert" /\ up'[c].pc = "done" /\ up'[c].result.success) =>
                 /\ Cardinality(videos' \ videos) = 1
                 /\ \A v \in videos' \ videos :
                        /\ v.uploaded_by = up[c].user
                        /\ v.uploaded_by \in Users
                        /\ v.storage_path.owner = up[c].user]_vars

\* a call holds the record of the user it looked up and has yet to insert
\* it, another user is signed in, and the other call has inserted a record
\* of a user who is not signed in
C13_Witness ==
    /\ up["c1"].pc = "insert"
    /\ session \in Users
    /\ session # up["c1"].user
    /\ up["c2"].pc = "done"
    /\ up["c2"].result.success
    /\ \E v \in videos : v.uploaded_by = up["c2"].user /\ v.uploaded_by # session

----------------------------------------------------------------------------
(* The claims about reading the catalog, checked under SpecCatalog. *)

\* the record v with its profile taken off
Bare(v) == [f \in DOMAIN v \ {"profiles"} |-> v[f]]

C9_JoinByOwner ==
    (/\ ls.pc = "done"
     /\ Len(ls.io) = 2
     /\ ls.io[2].res = "ok") =>
        /\ ls.result.success = TRUE
        /\ { ls.videos[i] : i \in DOMAIN ls.videos } = videos
        /\ ls.io[2].arg = { ls.videos[i].uploaded_by : i \in DOMAIN ls.videos }
        /\ Len(ls.result.videos) = Len(ls.videos)
        /\ \A i \in DOMAIN ls.videos :
               LET v == ls.videos[i]
                   own == { p \in profiles : p.id = v.uploaded_by }
                   got == ls.result.videos[i].profiles
               IN  /\ Bare(ls.result.videos[i]) = v
                   /\ own # {} =>
                          \E p \in own :
                              got = [id |-> p.id, full_name |-> p.full_name,
                                     email |-> p.email]
                   /\ (own = {}) <=>
                          got = [full_name |-> "Unknown User",
                                 email |-> "unknown@email.com"]

C9_Witness ==
    /\ ls.pc = "done"
    /\ Len(ls.io) = 2
    /\ ls.io[2].res = "ok"
    /\ Len(ls.result.videos) = 2
    /\ ls.result.videos[1].profiles = Placeholder
    /\ ls.result.videos[2].profiles # Placeholder
    /\ Cardinality(ls.io[2].arg) = 2

\* C14: the sequence a successful getAllVideos returns is in created_at
\* descending order on each return path (profiles fetched, profile fetch
\* failed, nothing to list), and it is the sequence the video query gave:
\* same length, same records at the same positions.
C14_ListingKeepsOrder ==
    (ls.pc = "done" /\ ls.result.success) =>
        /\ Descending(ls.result.videos)
        /\ Len(ls.result.videos) = Len(ls.videos)
        /\ \A i \in DOMAIN ls.videos : Bare(ls.result.videos[i]) = ls.videos[i]
        /\ ls.io[1].res = "ok"
        /\ ls.io[1].arg = NONE
        /\ Len(ls.io) = 1 => ls.result.videos = <<>>

\* profiles were fetched and two videos of different times were returned
C14_Witness ==
    /\ ls.pc = "done"
    /\ Len(ls.io) = 2
    /\ ls.io[2].res = "ok"
    /\ ls.result.success
    /\ Len(ls.result.videos) = 2
    /\ ls.result.videos[1].created_at > ls.result.videos[2].created_at

\* C15: getAllVideos on a store with no video records, when the query
\* answers without error (empty or null data), returns success with an
\* empty sequence and the profiles client receives no call.
C15_EmptyStoreEmptyList ==
    /\ (ls.pc = "done" /\ videos = {} /\ ls.io[1].res = "ok") =>
           /\ ls.result = [success |-> TRUE, videos |-> <<>>]
           /\ Len(ls.io) = 1
           /\ CallsTo(ls.io, "profiles.select") = {}
    /\ videos = {} => ls.pc # "profiles"

C15_Witness ==
    /\ ls.pc = "done"
    /\ videos = {}
    /\ profiles # {}
    /\ ls.io[1].res = "ok"
    /\ ls.result.success

\* C10: getVideoById with an id that matches no record returns a failure,
\* never success with a null video, whatever the store answers for no match.
C10_NoMatchIsFailure ==
    (gv.pc = "done" /\ \A v \in videos : v.id # gv.videoId) =>
        gv.result.success = FALSE

\* the results of the calls that have returned
Returned ==
    { up[c].result : c \in { d \in DOMAIN up : up[d].pc = "done" } }
    \cup (IF ls # NONE /\ ls.pc = "done" THEN {ls.result} ELSE {})
    \cup (IF gv # NONE /\ gv.pc = "done" THEN {gv.result} ELSE {})

\* C16: whatever the backend clients answer (a value, an error result, an
\* exception), uploadVideo, getAllVideos and getVideoById return
\* {success: true, payload} or {success: false, error: message}, and the
\* message of a failure is defined.
C16_UniformResult ==
    \A res \in Returned :
        /\ "success" \in DOMAIN res
        /\ res.success \in BOOLEAN
        /\ res.success = FALSE =>
               /\ DOMAIN res = {"success", "error"}
               /\ res.error \notin {NULL, NoMessage}

----------------------------------------------------------------------------
(* The claim about formatFileSize, checked under SpecFormat. *)

\* the largest index i in 0..3 with bytes / 1024^i >= 1
ClaimedIndex(bytes) == IF Len(bytes) - 1 > 3 THEN 3 ELSE Len(bytes) - 1

\* C11: formatFileSize gives '0 Bytes' for 0 and otherwise bytes / 1024^i
\* rounded to 2 decimals, trailing zeros dropped, then the unit at index i
\* of Bytes, KB, MB, GB, with i the largest index in 0..3 for which
\* bytes / 1024^i >= 1; so 1024 is '1 KB', 1536 '1.5 KB', 1073741824
\* '1 GB', and 1024^4 and more are given in GB, never without a unit.
C11_FormatFileSize ==
    fmt.pc = "done" =>
        /\ fmt.bytes = <<>> =>
               fmt.out = [whole |-> 0, decimals |-> <<>>, unit |-> "Bytes"]
        /\ fmt.bytes = <<0, 1>> =>
               fmt.out = [whole |-> 1, decimals |-> <<>>, unit |-> "KB"]
        /\ fmt.bytes = <<512, 1>> =>
               fmt.out = [whole |-> 1, decimals |-> <<5>>, unit |-> "KB"]
        /\ fmt.bytes = <<0, 0, 0, 1>> =>
               fmt.out = [whole |-> 1, decimals |-> <<>>, unit |-> "GB"]
        /\ fmt.bytes # <<>> =>
               LET i == ClaimedIndex(fmt.bytes)
                   n == ParseFloat(ToFixed2(fmt.bytes, i))
               IN  /\ fmt.out.unit = <<"Bytes", "KB", "MB", "GB">>[i + 1]
                   /\ fmt.out.whole = n.whole
                   /\ fmt.out.decimals = n.decimals

----------------------------------------------------------------------------
(* The claims about records and blobs, checked under SpecRace. *)

\* the records a getAllVideos call holds or has returned
Listed ==
    { ls.videos[i] : i \in DOMAIN ls.videos }
    \cup (IF ls.pc = "done" /\ ls.result.success
          THEN { Bare(ls.result.videos[i]) : i \in DOMAIN ls.result.videos }
          ELSE {})

\* C12: under every interleaving of uploadVideo and getAllVideos calls, the
\* storage_path of every record is a key of the blob store, a listing never
\* holds or returns a record whose blob is not stored, and no two records
\* have the same storage_path.
C12_RecordsHaveBlobs ==
    /\ \A v \in videos : v.storage_path \in blobs
    /\ \A v \in Listed : v.storage_path \in blobs
    /\ \A v, w \in videos : v.storage_path = w.storage_path => v = w

\* both calls chose the same key, one put succeeded and its record was
\* listed, the other put was refused
C12_Witness ==
    /\ \A c \in UploadCalls : up[c].pc = "done"
    /\ up["c1"].fileName = up["c2"].fileName
    /\ \E c \in UploadCalls :
           /\ up[c].result.success = FALSE
           /\ up[c].result.error = MsgDuplicate
    /\ ls.pc = "done"
    /\ ls.result.success
    /\ Len(ls.result.videos) = 1

----------------------------------------------------------------------------
(* The claim about register, checked under SpecAuth. *)

\* the profile insert of the register call was answered, not thrown
ProfileInsertAnswered ==
    Len(reg.io) = 2 => reg.io[2].res \in {"ok", "error"}

----------------------------------------------------------------------------
(* The claim about the login form, checked under SpecLogin. *)

\* C18: a submit with an empty email or password calls login not at all
\* and leaves the button enabled; otherwise the button is disabled while
\* the login call is in flight, and once the attempt is over, whatever
\* login returned (success, failure with a message, failure whose error
\* is undefined), the button is enabled again with its label 'Masuk'.
C18_LoginButton ==
    /\ \A i \in DOMAIN form.attempts :
           (form.attempts[i].email = <<>> \/ form.attempts[i].password = <<>>) =>
               ~form.attempts[i].called
    /\ form.pc = "login" => form.btnDisabled /\ form.btnText = LabelLoading
    /\ form.pc = "idle" => ~form.btnDisabled /\ form.btnText = LabelLogin

====
